---- MODULE Spec2Model ----
(***************************************************************************)
(* Model of the Stripe foreign data wrapper (stripe_fdw.rs): the row codec *)
(* (body_to_rows, row_to_body), the predicate pushdown translator          *)
(* (pushdown_single_id, pushdown_quals, build_url), the scan engine        *)
(* (begin_scan, iter_scan, end_scan) and the mutation dispatcher           *)
(* (begin_modify, insert, update, delete).                                 *)
(*                                                                         *)
(* Strings are atoms.  Option<T> is a tagged record, a JSON value is a     *)
(* tagged record [t, v], a Cell is a tagged record [t, v], a Row is a      *)
(* sequence of [col, cell] with cell an Option<Cell>.                      *)
(***************************************************************************)
EXTENDS Integers, Sequences, FiniteSets, TLC

(* ------------------------------ bounds --------------------------------- *)
\* fetches after which the upstream of an unlimited scan stops continuing
MaxFetches == 3
\* iter_scan calls observed after the buffer of a scan has run empty
ExtraIter == 2
\* longest predicate list first given to build_url; one more after additions
MaxQuals == 2
\* requests sent between begin_modify and end_modify
MaxMutations == 2
\* begin_scan calls a host that does not keep to the lifecycle makes in a row
\* without an end_scan
MaxBegins == 2

(* ------------------------------ Option --------------------------------- *)
None == [t |-> "None", v |-> ""]
Some(x) == [t |-> "Some", v |-> x]
is_some(o) == o.t = "Some"

(* ------------------------------ JSON ----------------------------------- *)
JNull == [t |-> "null", v |-> ""]
JBool(b) == [t |-> "bool", v |-> b]
JNum(n) == [t |-> "num", v |-> n]
JStr(s) == [t |-> "str", v |-> s]
JArr(a) == [t |-> "arr", v |-> a]
JObj(m) == [t |-> "obj", v |-> m]

\* serde_json accessors: Value::as_object / get / as_str / as_bool / as_i64 / as_array
as_object(j) == IF j.t = "obj" THEN Some(j.v) ELSE None
get(m, k) == IF k \in DOMAIN m THEN Some(m[k]) ELSE None
as_str(j) == IF j.t = "str" THEN Some(j.v) ELSE None
as_bool(j) == IF j.t = "bool" THEN Some(j.v) ELSE None
as_i64(j) == IF j.t = "num" THEN Some(j.v) ELSE None
as_array(j) == IF j.t = "arr" THEN Some(j.v) ELSE None
\* value.as_object().and_then(|v| v.get(k))
field(j, k) == IF is_some(as_object(j)) THEN get(as_object(j).v, k) ELSE None

(* ------------------------------ Cell ----------------------------------- *)
Cell(ty, x) == [t |-> ty, v |-> x]
CellBool(b) == Cell("Bool", b)
CellI64(n) == Cell("I64", n)
CellString(s) == Cell("String", s)
CellTimestamp(n) == Cell("Timestamp", n)
CellJson(j) == Cell("Json", j)

(* ------------------------- resource schemas ---------------------------- *)
SupportedObjs ==
  {"balance", "balance_transactions", "charges", "customers", "invoices",
   "payment_intents", "products", "subscriptions"}

\* the common_cols argument resp_to_rows passes for each object
common_cols_of(obj) ==
  CASE obj = "balance" -> << <<"amount", "i64">>, <<"currency", "string">> >>
    [] obj = "balance_transactions" ->
         << <<"id", "string">>, <<"amount", "i64">>, <<"currency", "string">>,
            <<"description", "string">>, <<"fee", "i64">>, <<"net", "i64">>,
            <<"status", "string">>, <<"type", "string">>, <<"created", "timestamp">> >>
    [] obj = "charges" ->
         << <<"id", "string">>, <<"amount", "i64">>, <<"currency", "string">>,
            <<"customer", "string">>, <<"description", "string">>,
            <<"invoice", "string">>, <<"payment_intent", "string">>,
            <<"status", "string">>, <<"created", "timestamp">> >>
    [] obj = "customers" ->
         << <<"id", "string">>, <<"email", "string">>, <<"name", "string">>,
            <<"description", "string">>, <<"created", "timestamp">> >>
    [] obj = "invoices" ->
         << <<"id", "string">>, <<"customer", "string">>, <<"subscription", "string">>,
            <<"status", "string">>, <<"total", "i64">>, <<"currency", "string">>,
            <<"period_start", "timestamp">>, <<"period_end", "timestamp">> >>
    [] obj = "payment_intents" ->
         << <<"id", "string">>, <<"customer", "string">>, <<"amount", "i64">>,
            <<"currency", "string">>, <<"payment_method", "string">>,
            <<"created", "timestamp">> >>
    [] obj = "products" ->
         << <<"id", "string">>, <<"name", "string">>, <<"active", "bool">>,
            <<"default_price", "string">>, <<"description", "string">>,
            <<"created", "timestamp">>, <<"updated", "timestamp">> >>
    [] obj = "subscriptions" ->
         << <<"id", "string">>, <<"customer", "string">>, <<"currency", "string">>,
            <<"current_period_start", "timestamp">>,
            <<"current_period_end", "timestamp">> >>
    [] OTHER -> << >>

\* the obj_key argument resp_to_rows passes for each object
obj_key_of(obj) == IF obj = "balance" THEN "available" ELSE "data"

(* --------------------------- body_to_rows ------------------------------ *)
\* Unix seconds are counted in units of 10^9 s (TLC integers are 32 bits):
\* OffsetDateTime::from_unix_timestamp accepts -377705116800 ..= 253402300799.
MinUnixTimestamp == -377
MaxUnixTimestamp == 253
from_unix_timestamp_ok(a) == a >= MinUnixTimestamp /\ a <= MaxUnixTimestamp

\* slip: a value of another JSON type in a string column gives an empty string
coerce_lossy(col_type, v) ==
  CASE col_type = "bool" ->
         IF is_some(as_bool(v)) THEN Some(CellBool(as_bool(v).v)) ELSE None
    [] col_type = "i64" ->
         IF is_some(as_i64(v)) THEN Some(CellI64(as_i64(v).v)) ELSE None
    [] col_type = "string" ->
         IF is_some(as_str(v)) THEN Some(CellString(as_str(v).v)) ELSE Some(CellString(""))
    [] col_type = "timestamp" ->
         IF is_some(as_i64(v)) THEN Some(CellTimestamp(as_i64(v).v)) ELSE None
    [] OTHER -> None

\* the closure of the and_then at lines 71-81: Option<Cell> for one JSON value
coerce(col_type, v) ==
  CASE col_type = "bool" ->
         IF is_some(as_bool(v)) THEN Some(CellBool(as_bool(v).v)) ELSE None
    [] col_type = "i64" ->
         IF is_some(as_i64(v)) THEN Some(CellI64(as_i64(v).v)) ELSE None
    [] col_type = "string" ->
         IF is_some(as_str(v)) THEN Some(CellString(as_str(v).v)) ELSE None
    [] col_type = "timestamp" ->
         IF is_some(as_i64(v)) THEN Some(CellTimestamp(as_i64(v).v)) ELSE None
    [] OTHER -> None

\* the unwrap at line 76 panics on an integer outside the date-time range
coerce_panics(col_type, v) ==
  col_type = "timestamp" /\ is_some(as_i64(v)) /\ ~from_unix_timestamp_ok(as_i64(v).v)

\* index of the first schema column named c, 0 when there is none (lines 64-67)
col_index(common_cols, c) ==
  LET hits == {i \in 1..Len(common_cols) : common_cols[i][1] = c}
  IN IF hits = {} THEN 0 ELSE CHOOSE i \in hits : \A j \in hits : i <= j

\* the cell pushed for target column c of record rec (lines 68-82)
extract_cell(rec, common_cols, c) ==
  LET i == col_index(common_cols, c)
      f == field(rec, c)
  IN IF is_some(f) THEN coerce(common_cols[i][2], f.v) ELSE None

extract_panics(rec, common_cols, c) ==
  LET i == col_index(common_cols, c)
      f == field(rec, c)
  IN i > 0 /\ is_some(f) /\ coerce_panics(common_cols[i][2], f.v)

\* slip: every schema column is extracted, requested or not
record_to_row_all(rec, common_cols, tgt_cols) ==
  LET cells == [i \in 1..Len(common_cols) |->
                  [col |-> common_cols[i][1],
                   cell |-> extract_cell(rec, common_cols, common_cols[i][1])]]
  IN IF \E i \in 1..Len(tgt_cols) : tgt_cols[i] = "attrs"
     THEN Append(cells, [col |-> "attrs", cell |-> Some(CellJson(rec))])
     ELSE cells

\* one iteration of the loop at lines 59-94: the row of one record
record_to_row(rec, common_cols, tgt_cols) ==
  LET hit == SelectSeq(tgt_cols, LAMBDA c : col_index(common_cols, c) > 0)
      cells == [i \in 1..Len(hit) |->
                  [col |-> hit[i], cell |-> extract_cell(rec, common_cols, hit[i])]]
  IN IF \E i \in 1..Len(tgt_cols) : tgt_cols[i] = "attrs"
     THEN Append(cells, [col |-> "attrs", cell |-> Some(CellJson(rec))])
     ELSE cells

record_panics(rec, common_cols, tgt_cols) ==
  \E i \in 1..Len(tgt_cols) : extract_panics(rec, common_cols, tgt_cols[i])

\* Result of body_to_rows: (rows, cursor, has_more), or a panic (an unwrap on
\* a body that is not an object, on a list without the record array, or on
\* a timestamp out of range).
\* slip: the cursor is taken from the first object of the page
last_obj_id_first(objs) ==
  IF Len(objs) = 0 THEN None
  ELSE LET id == field(objs[1], "id")
       IN IF is_some(id) /\ is_some(as_str(id.v)) THEN Some(as_str(id.v).v) ELSE None

\* "get last object's id as cursor" (lines 96-103)
last_obj_id(objs) ==
  IF Len(objs) = 0 THEN None
  ELSE LET id == field(objs[Len(objs)], "id")
       IN IF is_some(id) /\ is_some(as_str(id.v)) THEN Some(as_str(id.v).v) ELSE None

Panicked == [panic |-> TRUE, rows |-> << >>, cursor |-> None, has_more |-> None]

body_to_rows(value, obj_key, common_cols, tgt_cols) ==
  LET disc == field(value, "object")
      is_list == is_some(disc) /\ is_some(as_str(disc.v)) /\ as_str(disc.v).v = "list"
      arr == field(value, obj_key)
      shape_ok == IF is_list
                  THEN is_some(arr) /\ is_some(as_array(arr.v))
                  ELSE is_some(as_object(value))
      objs == IF is_list THEN as_array(arr.v).v ELSE << value >>
      hm == field(value, "has_more")
  IN IF ~shape_ok THEN Panicked
     ELSE IF \E i \in 1..Len(objs) : record_panics(objs[i], common_cols, tgt_cols)
     THEN Panicked
     ELSE [panic |-> FALSE,
           rows |-> [i \in 1..Len(objs) |-> record_to_row(objs[i], common_cols, tgt_cols)],
           cursor |-> last_obj_id(objs),
           has_more |-> IF is_some(hm) /\ is_some(as_bool(hm.v))
                        THEN Some(as_bool(hm.v).v) ELSE None]

\* resp_to_rows: dispatch on the object; errors counts report_error calls
resp_to_rows(obj, value, tgt_cols) ==
  IF obj \in SupportedObjs
  THEN [res |-> body_to_rows(value, obj_key_of(obj), common_cols_of(obj), tgt_cols),
        errors |-> 0]
  ELSE [res |-> [panic |-> FALSE, rows |-> << >>, cursor |-> None, has_more |-> None],
        errors |-> 1]

(* --------------------------- row_to_body ------------------------------- *)
\* map.insert(k, x)
map_insert(m, k, x) == [c \in DOMAIN m \cup {k} |-> IF c = k THEN x ELSE m[c]]
\* slip: nothing is moved in
map_append_none(m, other) == m

\* map.append(other): every entry of other is moved in, replacing on equal keys
map_append(m, other) ==
  [c \in DOMAIN m \cup DOMAIN other |-> IF c \in DOMAIN other THEN other[c] ELSE m[c]]

\* the loop of row_to_body from cell i on, with the map built so far;
\* errors counts the report_error calls
RECURSIVE row_to_body_from(_, _, _)
row_to_body_from(row, i, map) ==
  IF i > Len(row) THEN [body |-> JObj(map), errors |-> 0]
  ELSE IF ~is_some(row[i].cell) THEN row_to_body_from(row, i + 1, map)
  ELSE LET col_name == row[i].col
           cell == row[i].cell.v
       IN CASE cell.t = "Bool" ->
                 row_to_body_from(row, i + 1, map_insert(map, col_name, JBool(cell.v)))
            [] cell.t = "I64" ->
                 row_to_body_from(row, i + 1, map_insert(map, col_name, JNum(cell.v)))
            [] cell.t = "String" ->
                 row_to_body_from(row, i + 1, map_insert(map, col_name, JStr(cell.v)))
            [] cell.t = "Json" ->
                 IF col_name = "attrs" /\ is_some(as_object(cell.v))
                 THEN row_to_body_from(row, i + 1, map_append(map, as_object(cell.v).v))
                 ELSE row_to_body_from(row, i + 1, map)
            [] OTHER -> [body |-> JNull, errors |-> 1]

\* slip: the loop starts at the second cell
row_to_body_tail(row) == row_to_body_from(row, 2, << >>)

row_to_body(row) == row_to_body_from(row, 1, << >>)

(* ------------------------------- Qual ---------------------------------- *)
ValueCell(c) == [t |-> "Cell", v |-> c]
ValueArray(a) == [t |-> "Array", v |-> a]
Qual(f, op, val, or) == [field |-> f, operator |-> op, value |-> val, use_or |-> or]

(* -------------------------------- Url ---------------------------------- *)
\* A Url is [resource, item, query]: the path {base}/{resource} or
\* {base}/{resource}/{item}, and the query as a sequence of <<key, value>>.
\* self.base_url.join(obj)
join(obj) == [resource |-> obj, item |-> None, query |-> << >>]

\* url.query_pairs_mut().append_pair(k, x)
append_pair(url, k, x) == [url EXCEPT !.query = Append(@, <<k, x>>)]

\* Url::parse splits the text it is given at the first '?': what precedes it
\* is path, what follows it is query.  The strings of the model that hold a
\* '?' are listed here; every other string of the model is a plain segment.
path_part(s) == CASE s = "cus_1?expand" -> "cus_1" [] OTHER -> s
query_part(s) == CASE s = "cus_1?expand" -> Some("expand") [] OTHER -> None

\* Url::parse(&format!("{}/{}", url.as_str(), &s)).ok(), for a url that has
\* no query yet (so at each of its call sites, lines 238, 260 and 270)
parse_appended(url, s) ==
  Some([resource |-> url.resource,
        item |-> Some(path_part(s)),
        query |-> IF is_some(query_part(s)) THEN << <<query_part(s).v, "">> >> ELSE << >>])

\* slip: the disjunction test is inverted
pushdown_single_id_or(url, quals) ==
  IF Len(quals) # 1 THEN None
  ELSE LET qual == quals[1]
       IN IF qual.field = "id" /\ qual.operator = "=" /\ qual.use_or
             /\ qual.value.t = "Cell" /\ qual.value.v.t = "String"
          THEN parse_appended(url, qual.value.v.v)
          ELSE None

pushdown_single_id(url, quals) ==
  IF Len(quals) # 1 THEN None
  ELSE LET qual == quals[1]
       IN IF qual.field = "id" /\ qual.operator = "=" /\ ~qual.use_or
             /\ qual.value.t = "Cell" /\ qual.value.v.t = "String"
          THEN parse_appended(url, qual.value.v.v)
          ELSE None

\* b.to_string()
bool_to_string(b) == IF b THEN "true" ELSE "false"

\* slip: the disjunction flag is not looked at
pushdown_one_any(url, qual, fld) ==
  IF qual.field = fld /\ qual.operator = "=" /\ qual.value.t = "Cell"
  THEN CASE qual.value.v.t = "Bool" -> append_pair(url, fld, bool_to_string(qual.value.v.v))
         [] qual.value.v.t = "String" -> append_pair(url, fld, qual.value.v.v)
         [] OTHER -> url
  ELSE url

\* the body of the inner loop of pushdown_quals for one (qual, field)
pushdown_one(url, qual, fld) ==
  IF qual.field = fld /\ qual.operator = "=" /\ ~qual.use_or /\ qual.value.t = "Cell"
  THEN CASE qual.value.v.t = "Bool" -> append_pair(url, fld, bool_to_string(qual.value.v.v))
         [] qual.value.v.t = "String" -> append_pair(url, fld, qual.value.v.v)
         [] OTHER -> url
  ELSE url

RECURSIVE pushdown_fields(_, _, _, _)
pushdown_fields(url, qual, fields, j) ==
  IF j > Len(fields) THEN url
  ELSE pushdown_fields(pushdown_one(url, qual, fields[j]), qual, fields, j + 1)

\* slip: the outer loop ends at the first predicate that pushes nothing
RECURSIVE pushdown_from_break(_, _, _, _)
pushdown_from_break(url, quals, fields, i) ==
  IF i > Len(quals) THEN url
  ELSE LET nxt == pushdown_fields(url, quals[i], fields, 1)
       IN IF nxt = url THEN url ELSE pushdown_from_break(nxt, quals, fields, i + 1)

\* the outer loop of pushdown_quals from predicate i on
RECURSIVE pushdown_from(_, _, _, _)
pushdown_from(url, quals, fields, i) ==
  IF i > Len(quals) THEN url
  ELSE pushdown_from(pushdown_fields(url, quals[i], fields, 1), quals, fields, i + 1)

pushdown_quals(url, quals, fields) == pushdown_from(url, quals, fields, 1)

\* slip: the cursor is not appended
add_pagination_no_cursor(url, obj, page_size, cursor) ==
  IF obj # "balance" THEN append_pair(url, "limit", ToString(page_size)) ELSE url

\* "add pagination parameters except for 'balance' object" (lines 277-284)
add_pagination(url, obj, page_size, cursor) ==
  IF obj # "balance"
  THEN LET u == append_pair(url, "limit", ToString(page_size))
       IN IF is_some(cursor) THEN append_pair(u, "starting_after", cursor.v) ELSE u
  ELSE url

\* StripeFdw::build_url: Option<Url>
build_url(obj, quals, page_size, cursor) ==
  LET url0 == join(obj)
      url1 == IF obj = "balance_transactions"
              THEN pushdown_quals(url0, quals, <<"payout", "type">>) ELSE url0
      url2 == IF obj = "charges" THEN pushdown_quals(url1, quals, <<"customer">>) ELSE url1
      sid3 == IF obj = "customers" THEN pushdown_single_id(url2, quals) ELSE None
      url3 == IF obj = "customers" THEN pushdown_quals(url2, quals, <<"email">>) ELSE url2
      url4 == IF obj = "invoices"
              THEN pushdown_quals(url3, quals, <<"customer", "status", "subscription">>)
              ELSE url3
      url5 == IF obj = "payment_intents"
              THEN pushdown_quals(url4, quals, <<"customer">>) ELSE url4
      sid6 == IF obj = "products" THEN pushdown_single_id(url5, quals) ELSE None
      url6 == IF obj = "products" THEN pushdown_quals(url5, quals, <<"active">>) ELSE url5
      sid7 == IF obj = "subscriptions" THEN pushdown_single_id(url6, quals) ELSE None
      url7 == IF obj = "subscriptions"
              THEN pushdown_quals(url6, quals, <<"customer", "price", "status">>)
              ELSE url6
  IN IF is_some(sid3) THEN sid3
     ELSE IF is_some(sid6) THEN sid6
     ELSE IF is_some(sid7) THEN sid7
     ELSE Some(add_pagination(url7, obj, page_size, cursor))

(* ============================ state ==================================== *)
VARIABLES
  client,          \* StripeFdw.client is Some (TRUE) or None (FALSE)
  scan_result,     \* StripeFdw.scan_result: Option<Vec<Row>>
  self_obj,        \* StripeFdw.obj
  self_rowid_col,  \* StripeFdw.rowid_col
  pc,              \* "idle", or "fetching": begin_scan waits for a response
  frame,           \* arguments and locals of the begin_scan in progress or last made
  open,            \* a begin_scan was made and end_scan has not been called since
  outcome,         \* how the last begin_scan ended
  fetches,         \* the GETs of begin_scan in order: the Url, and the cursor it was built from
  served,          \* the responses it received, in order
  errors,          \* report_error calls of the last begin_scan
  iterLog,         \* what each iter_scan since the last begin_scan returned
  mut,             \* the last mutation call and what it did
  requests,        \* method and Url of the requests sent since begin_modify
  u,               \* build_url under test: its arguments and its result
  discarded,       \* no scan is open and the last end_scan dropped undelivered rows
  prior,           \* the buffer and the scan state the last begin_scan was called in
  codec            \* body_to_rows / row_to_body under test: arguments and results

scanVars == <<scan_result, pc, frame, open, outcome, fetches, served, errors, iterLog,
              discarded, prior>>
modVars == <<self_obj, self_rowid_col, mut, requests>>
vars == <<client, scan_result, self_obj, self_rowid_col, pc, frame, open, outcome,
          fetches, served, errors, iterLog, mut, requests, u, discarded, prior,
          codec>>

(* ====================== scan engine: inputs ============================ *)
page_size == 100
\* stands for i64::MAX (TLC integers are 32 bits); page never comes near it
I64_MAX == 2147483647

Limit(off, cnt) == [offset |-> off, count |-> cnt]
ScanLimits ==
  {None, Some(Limit(0, 0)), Some(Limit(7, 0)), Some(Limit(0, 1)),
   Some(Limit(0, 100)), Some(Limit(50, 150))}

\* the options of the foreign table: with or without 'object'
ScanOptions ==
  {<< >>} \cup {[object |-> o] : o \in {"customers", "balance", "coupons"}}

\* the predicates and the columns of the queries the host scans with
ScanQueries ==
  {[quals |-> << >>, columns |-> <<"id", "email">>],
   [quals |-> << Qual("email", "=", ValueCell(CellString("a@x")), FALSE) >>,
    columns |-> <<"id", "email">>],
   [quals |-> << Qual("id", "=", ValueCell(CellString("cus_1")), FALSE) >>,
    columns |-> <<"email", "attrs">>]}

\* the records the upstream holds: two with a string id, one with a numeric
\* id and a numeric email
Rec1 == JObj([id |-> JStr("cus_1"), email |-> JStr("a@x")])
Rec2 == JObj([id |-> JStr("cus_2"), email |-> JStr("b@x")])
Rec7 == JObj([id |-> JNum(7), email |-> JNum(5)])
ScanRecords == {Rec1, Rec2, Rec7}
\* the record arrays of its pages
ScanPages ==
  {<< >>, << Rec1 >>, << Rec7 >>, << Rec1, Rec2 >>, << Rec2, Rec1 >>,
   << Rec7, Rec1 >>, << Rec1, Rec7 >>}

RECURSIVE SeqsUpTo(_, _)
SeqsUpTo(S, n) ==
  IF n = 0 THEN {<< >>}
  ELSE SeqsUpTo(S, n - 1) \cup
       {Append(q, x) : q \in {q0 \in SeqsUpTo(S, n - 1) : Len(q0) = n - 1}, x \in S}

ListBody(recs, hm) ==
  IF hm = "absent"
  THEN JObj([object |-> JStr("list"), data |-> JArr(recs)])
  ELSE JObj([object |-> JStr("list"), data |-> JArr(recs), has_more |-> JBool(hm = "true")])

OkResponses ==
  {[kind |-> "ok", body |-> ListBody(recs, hm)] :
      recs \in ScanPages, hm \in {"true", "false", "absent"}}
  \cup {[kind |-> "ok", body |-> r] : r \in ScanRecords}
  \cup {[kind |-> "ok",
         body |-> JObj([object |-> JStr("list"), data |-> JArr(<< Rec2 >>),
                        has_more |-> JStr("true")])]}
FailedResponses ==
  {[kind |-> "transport_error", body |-> JNull], [kind |-> "status_error", body |-> JNull]}
Responses == OkResponses \cup FailedResponses

(* ====================== scan engine: begin_scan ======================== *)
\* no begin_scan has been made since the instance was made or a scan closed
NoPrior == [buffer |-> None, open |-> FALSE, begins |-> 0]

\* the frame when no begin_scan has been made
NoFrame == [options |-> << >>, obj |-> "", quals |-> << >>, columns |-> << >>, limit |-> None,
            page_cnt |-> 0, page |-> 0, result |-> << >>, cursor |-> None]

\* require_option(name, options): the value, or None after reporting an error
require_option(name, options) ==
  IF name \in DOMAIN options
  THEN [val |-> Some(options[name]), errors |-> 0]
  ELSE [val |-> None, errors |-> 1]

\* lines 451-459
page_cnt_of(limit) ==
  IF is_some(limit) THEN (limit.v.offset + limit.v.count) \div page_size + 1 ELSE I64_MAX

\* slip: the zero-count test is a negative-count test
zero_count_negative(limit) == is_some(limit) /\ limit.v.count < 0

\* `if limit.count == 0 { return; }` (lines 451-454)
zero_count(limit) == is_some(limit) /\ limit.v.count = 0

\* self.scan_result = Some(result) at line 501
finish(f, sent, errs) ==
  /\ scan_result' = Some(f.result)
  /\ frame' = f
  /\ fetches' = sent
  /\ pc' = "idle"
  /\ outcome' = "done"
  /\ errors' = errs

\* slip: a return out of begin_scan before line 501 empties the buffer
return_early_clear(f, sent, how, errs) ==
  /\ frame' = f
  /\ fetches' = sent
  /\ pc' = "idle"
  /\ outcome' = how
  /\ errors' = errs
  /\ scan_result' = None

\* a return out of begin_scan before line 501: scan_result is not assigned
return_early(f, sent, how, errs) ==
  /\ frame' = f
  /\ fetches' = sent
  /\ pc' = "idle"
  /\ outcome' = how
  /\ errors' = errs
  /\ UNCHANGED scan_result

\* the head of `while page < page_cnt` and the request of lines 466-473
loop_head(f, sent, errs) ==
  IF f.page < f.page_cnt
  THEN LET url == build_url(f.obj, f.quals, page_size, f.cursor)
       IN IF ~is_some(url)
          THEN return_early(f, sent, "no_url", errs)
          ELSE /\ frame' = f
               /\ fetches' = Append(sent, [url |-> url.v, cursor |-> f.cursor])
               /\ pc' = "fetching"
               /\ outcome' = "running"
               /\ errors' = errs
               /\ UNCHANGED scan_result
  ELSE finish(f, sent, errs)

\* slip: the failure leaves the loop with `break`, so line 501 still runs
report_request_error_break(f, sent, errs) == finish(f, sent, errs + 1)

\* report_request_error!: report_error, then return
report_request_error(f, sent, errs) == return_early(f, sent, "request_failed", errs + 1)

\* the host opens a scan only on an instance with no scan open
host_may_begin == ~open

\* begin_scan up to its first request (lines 443-473)
begin_scan(quals, columns, limit, options) ==
  /\ pc = "idle"
  /\ prior' = [buffer |-> scan_result, open |-> open,
               begins |-> IF open THEN prior.begins + 1 ELSE 1]
  /\ open' = TRUE
  /\ iterLog' = << >>
  /\ served' = << >>
  /\ LET o == require_option("object", options)
         f0 == [options |-> options, obj |-> IF is_some(o.val) THEN o.val.v ELSE "",
                quals |-> quals, columns |-> columns, limit |-> limit,
                page_cnt |-> 0, page |-> 0, result |-> << >>, cursor |-> None]
     IN IF ~is_some(o.val) THEN return_early(f0, << >>, "no_object", o.errors)
        ELSE IF ~client THEN return_early(f0, << >>, "no_client", 0)
        ELSE IF zero_count(limit)
        THEN return_early(f0, << >>, "zero_count", 0)
        ELSE loop_head([f0 EXCEPT !.page_cnt = page_cnt_of(limit)], << >>, 0)
  /\ discarded' = FALSE
  /\ UNCHANGED <<client, modVars, u, codec>>

\* slip: the test for an empty page is missing
is_empty_never(rows) == FALSE

\* `if rows.is_empty() { break; }` (lines 477-479)
is_empty(rows) == rows = << >>

\* slip: only an explicit has_more = false ends the loop
breaks_on_false_only(has_more) == has_more = Some(FALSE)

\* the match on has_more (lines 481-488): a false flag and a missing flag
\* both break out of the loop
breaks_on(has_more) == has_more # Some(TRUE)

\* slip: the page counter is not advanced
next_page_same(page) == page

\* `page += 1` at line 498
next_page(page) == page + 1

\* a response that makes the loop go round again
continues(f, resp) ==
  /\ resp.kind = "ok"
  /\ LET r == resp_to_rows(f.obj, resp.body, f.columns).res
     IN ~r.panic /\ ~is_empty(r.rows) /\ ~breaks_on(r.has_more)

\* begin_scan from a response to the next request or to its end (lines 473-501)
fetch_reply(resp) ==
  /\ pc = "fetching"
  /\ continues(frame, resp) =>
       (Len(fetches) < MaxFetches \/ frame.page + 1 >= frame.page_cnt)
  /\ served' = Append(served, resp)
  /\ IF resp.kind # "ok"
     THEN report_request_error(frame, fetches, errors)
     ELSE LET r == resp_to_rows(frame.obj, resp.body, frame.columns)
              errs == errors + r.errors
          IN IF r.res.panic THEN return_early(frame, fetches, "panicked", errs)
             ELSE IF is_empty(r.res.rows) THEN finish(frame, fetches, errs)
             ELSE LET f1 == [frame EXCEPT !.result = @ \o r.res.rows]
                  IN IF breaks_on(r.res.has_more) THEN finish(f1, fetches, errs)
                     ELSE loop_head([f1 EXCEPT !.cursor = r.res.cursor, !.page = next_page(@)],
                                    fetches, errs)
  /\ UNCHANGED <<client, open, iterLog, discarded, prior, modVars, u, codec>>

(* =================== scan engine: iter_scan, end_scan ================== *)
\* slip: the buffer is drained from its end
iter_scan_lifo ==
  /\ pc = "idle"
  /\ Len(SelectSeq(iterLog, LAMBDA r : r = None)) < ExtraIter
  /\ IF is_some(scan_result) /\ scan_result.v # << >>
     THEN /\ iterLog' = Append(iterLog, Some(scan_result.v[Len(scan_result.v)]))
          /\ scan_result' = Some(SubSeq(scan_result.v, 1, Len(scan_result.v) - 1))
     ELSE /\ iterLog' = Append(iterLog, None)
          /\ UNCHANGED scan_result
  /\ UNCHANGED <<client, pc, frame, open, outcome, fetches, served, errors, discarded,
               prior, modVars, u, codec>>

\* iter_scan; the host stops asking ExtraIter calls after the buffer ran empty
iter_scan ==
  /\ pc = "idle"
  /\ Len(SelectSeq(iterLog, LAMBDA r : r = None)) < ExtraIter
  /\ IF is_some(scan_result) /\ scan_result.v # << >>
     THEN /\ iterLog' = Append(iterLog, Some(Head(scan_result.v)))
          /\ scan_result' = Some(Tail(scan_result.v))
     ELSE /\ iterLog' = Append(iterLog, None)
          /\ UNCHANGED scan_result
  /\ UNCHANGED <<client, pc, frame, open, outcome, fetches, served, errors, discarded,
               prior, modVars, u, codec>>

\* slip: the buffer is left as it is
end_scan_keep ==
  /\ pc = "idle"
  /\ open
  /\ open' = FALSE
  /\ outcome' = "ended"
  /\ frame' = NoFrame
  /\ fetches' = << >>
  /\ served' = << >>
  /\ errors' = 0
  /\ iterLog' = << >>
  /\ discarded' = (is_some(scan_result) /\ scan_result.v # << >>)
  /\ prior' = NoPrior
  /\ UNCHANGED <<client, scan_result, pc, modVars, u, codec>>

\* end_scan; the observation of the scan it closes ends with it
end_scan ==
  /\ pc = "idle"
  /\ open
  /\ scan_result' = None
  /\ open' = FALSE
  /\ outcome' = "ended"
  /\ frame' = NoFrame
  /\ fetches' = << >>
  /\ served' = << >>
  /\ errors' = 0
  /\ iterLog' = << >>
  /\ discarded' = (is_some(scan_result) /\ scan_result.v # << >>)
  /\ prior' = NoPrior
  /\ UNCHANGED <<client, pc, modVars, u, codec>>

(* ========================= specification =============================== *)
NoMut == [op |-> "none", row |-> << >>, encoded |-> None, sent |-> None,
          errors |-> 0, logged |-> None]
NoUrl == [pc |-> "off", obj |-> "", quals |-> << >>, cursor |-> None, url |-> None,
          quals0 |-> << >>, url0 |-> None, columns |-> << >>, body |-> JNull,
          decoded |-> [panic |-> FALSE, rows |-> << >>, cursor |-> None,
                       has_more |-> None]]
NoDecoded == [res |-> [panic |-> FALSE, rows |-> << >>, cursor |-> None, has_more |-> None],
              errors |-> 0]
NoCodec == [pc |-> "off", obj |-> "", columns |-> << >>, body |-> JNull,
            decoded |-> NoDecoded, i |-> 0, row |-> << >>,
            encoded |-> [body |-> JNull, errors |-> 0]]

\* StripeFdw::new: the client is there when a credential was configured
new ==
  /\ client \in BOOLEAN
  /\ scan_result = None
  /\ self_obj = ""
  /\ self_rowid_col = ""

Init ==
  /\ new
  /\ pc = "idle"
  /\ frame = NoFrame
  /\ open = FALSE
  /\ outcome = "new"
  /\ fetches = << >>
  /\ served = << >>
  /\ errors = 0
  /\ iterLog = << >>
  /\ mut = NoMut
  /\ requests = << >>
  /\ u = NoUrl
  /\ discarded = FALSE
  /\ prior = NoPrior
  /\ codec = NoCodec

BeginScan ==
  /\ host_may_begin
  /\ \E q \in ScanQueries, limit \in ScanLimits, options \in ScanOptions :
       begin_scan(q.quals, q.columns, limit, options)
FetchReply == \E resp \in Responses : fetch_reply(resp)
IterScan == iter_scan
EndScan == end_scan

Next == BeginScan \/ FetchReply \/ IterScan \/ EndScan
Spec == Init /\ [][Next]_vars

\* the scan engine when every request gets its answer: begin_scan blocks on
\* each request (rt.block_on at 473) until the client returns a response or an
\* error, so a request that was sent is eventually followed by the next step
\* of the loop
\* iter_scan is left to Spec: it runs only between scans' loops (pc = "idle")
\* and does not touch what the loop reads or writes but scan_result
NextFair == BeginScan \/ FetchReply \/ EndScan
SpecFair == Init /\ [][NextFair]_vars /\ WF_vars(FetchReply)

(* ============ scan engine under a host that skips end_scan ============== *)
\* begin_scan (435-503) does not look at scan_result or at whether a scan is
\* open, so the code accepts the call in any state; this host makes it while
\* an earlier scan is still open, the others keep to the lifecycle
FreeLimits == {None, Some(Limit(0, 0)), Some(Limit(0, 100))}
FreeQuery == [quals |-> << >>, columns |-> <<"id", "email">>]
FreePages == {<< >>, <<Rec1>>, <<Rec2, Rec7>>}
FreeResponses ==
  {[kind |-> "ok", body |-> ListBody(recs, hm)] :
     recs \in FreePages, hm \in {"true", "false"}}
  \cup FailedResponses

BeginScanFree ==
  /\ open => prior.begins < MaxBegins
  /\ \E limit \in FreeLimits, options \in ScanOptions :
       begin_scan(FreeQuery.quals, FreeQuery.columns, limit, options)
FetchReplyFree == \E resp \in FreeResponses : fetch_reply(resp)

NextFree == BeginScanFree \/ FetchReplyFree \/ IterScan \/ EndScan
SpecFree == Init /\ [][NextFree]_vars

(* ======================= mutation dispatcher =========================== *)
ModOptions ==
  {<< >>, [object |-> "customers"], [rowid_column |-> "id"],
   [object |-> "customers", rowid_column |-> "id"]}
\* the cells of the rows the host inserts or updates with
NameCell == [col |-> "name", cell |-> Some(CellString("n"))]
NoNameCell == [col |-> "name", cell |-> None]
ActiveCell == [col |-> "active", cell |-> Some(CellBool(TRUE))]
AmountCell == [col |-> "amount", cell |-> Some(CellI64(5))]
CreatedCell == [col |-> "created", cell |-> Some(CellTimestamp(1))]
AttrsCell ==
  [col |-> "attrs", cell |-> Some(CellJson(JObj([name |-> JStr("m"), k |-> JNum(1)])))]
MetadataCell == [col |-> "metadata", cell |-> Some(CellJson(JObj([k |-> JNum(1)])))]
ModRows ==
  {<< >>, << NameCell >>, << NameCell, ActiveCell, AmountCell >>,
   << NoNameCell, AmountCell >>, << CreatedCell >>, << NameCell, CreatedCell >>,
   << AttrsCell >>, << NameCell, AttrsCell >>, << AttrsCell, NameCell >>,
   << MetadataCell >>, << NameCell, MetadataCell >>}
ModRowids == {CellString("cus_1")}
MutResponses ==
  {[kind |-> "ok", body |-> JObj([id |-> JStr("cus_1")])],
   [kind |-> "ok", body |-> JObj(<< >>)]} \cup FailedResponses

\* json.get("id").and_then(|v| v.as_str()): the id that log_info confirms
confirmed_id(body) ==
  LET id == field(body, "id")
  IN IF is_some(id) /\ is_some(as_str(id.v)) THEN Some(as_str(id.v).v) ELSE None

\* the handling of the response to a mutation request (lines 532-544)
mutation_done(op, row, encoded, req, resp) ==
  /\ requests' = Append(requests, [method |-> req.method, url |-> req.url])
  /\ mut' = [op |-> op, row |-> row, encoded |-> encoded, sent |-> Some(req),
             errors |-> IF resp.kind = "ok" THEN 0 ELSE 1,
             logged |-> IF resp.kind = "ok" THEN confirmed_id(resp.body) ELSE None]

\* a mutation that returns without a request
mutation_skipped(op, row, encoded, errs) ==
  /\ mut' = [op |-> op, row |-> row, encoded |-> encoded, sent |-> None,
             errors |-> errs, logged |-> None]
  /\ UNCHANGED requests

begin_modify(options) ==
  /\ mut.op \in {"none", "end_modify"}
  /\ LET o == require_option("object", options)
         r == require_option("rowid_column", options)
     IN /\ self_obj' = IF is_some(o.val) THEN o.val.v ELSE ""
        /\ self_rowid_col' = IF is_some(r.val) THEN r.val.v ELSE ""
        /\ mut' = [NoMut EXCEPT !.op = "begin_modify", !.errors = o.errors + r.errors]
  /\ requests' = << >>
  /\ UNCHANGED <<client, scanVars, u, codec>>

\* the host mutates between begin_modify and end_modify, MaxMutations times
host_may_mutate == mut.op \notin {"none", "end_modify"} /\ Len(requests) < MaxMutations

insert(src, resp) ==
  /\ host_may_mutate
  /\ IF client
     THEN LET url == join(self_obj)
              body == row_to_body(src)
          IN IF body.body = JNull
             THEN mutation_skipped("insert", src, Some(body.body), body.errors)
             ELSE mutation_done("insert", src, Some(body.body),
                                [method |-> "POST", url |-> url, body |-> body.body], resp)
     ELSE mutation_skipped("insert", src, None, 0)
  /\ UNCHANGED <<client, scanVars, self_obj, self_rowid_col, u, codec>>

\* self.base_url.join(&format!("{}/", self.obj)).unwrap().join(rowid).unwrap()
join_rowid(obj, rowid) ==
  [resource |-> obj, item |-> Some(path_part(rowid)),
   query |-> IF is_some(query_part(rowid)) THEN << <<query_part(rowid).v, "">> >> ELSE << >>]

update(rowid, new_row, resp) ==
  /\ host_may_mutate
  /\ rowid.t = "String"
  /\ IF client
     THEN LET url == join_rowid(self_obj, rowid.v)
              body == row_to_body(new_row)
          IN IF body.body = JNull
             THEN mutation_skipped("update", new_row, Some(body.body), body.errors)
             ELSE mutation_done("update", new_row, Some(body.body),
                                [method |-> "POST", url |-> url, body |-> body.body], resp)
     ELSE mutation_skipped("update", new_row, None, 0)
  /\ UNCHANGED <<client, scanVars, self_obj, self_rowid_col, u, codec>>

delete(rowid, resp) ==
  /\ host_may_mutate
  /\ rowid.t = "String"
  /\ IF client
     THEN mutation_done("delete", << >>, None,
                        [method |-> "DELETE", url |-> join_rowid(self_obj, rowid.v),
                         body |-> JNull], resp)
     ELSE mutation_skipped("delete", << >>, None, 0)
  /\ UNCHANGED <<client, scanVars, self_obj, self_rowid_col, u, codec>>

end_modify ==
  /\ mut.op \notin {"none", "end_modify"}
  /\ mut' = [NoMut EXCEPT !.op = "end_modify"]
  /\ UNCHANGED <<client, scanVars, self_obj, self_rowid_col, requests, u, codec>>

InitModify ==
  /\ new
  /\ pc = "idle" /\ frame = NoFrame /\ open = FALSE /\ outcome = "new"
  /\ fetches = << >> /\ served = << >> /\ errors = 0 /\ iterLog = << >>
  /\ mut = NoMut /\ requests = << >>
  /\ u = NoUrl
  /\ discarded = FALSE /\ prior = NoPrior /\ codec = NoCodec

BeginModify == \E options \in ModOptions : begin_modify(options)
Insert == \E src \in ModRows, resp \in MutResponses : insert(src, resp)
Update ==
  \E rowid \in ModRowids, new_row \in ModRows, resp \in MutResponses :
    update(rowid, new_row, resp)
Delete == \E rowid \in ModRowids, resp \in MutResponses : delete(rowid, resp)
EndModify == end_modify

NextModify == BeginModify \/ Insert \/ Update \/ Delete \/ EndModify
SpecModify == InitModify /\ [][NextModify]_vars

(* ================= build_url on bounded arguments ====================== *)
AllObjs == SupportedObjs \cup {"coupons"}
QualFields == {"id", "customer", "active", "email", "type"}
UrlQuals ==
  {Qual(f, "=", ValueCell(CellString("cus_1")), FALSE) : f \in QualFields}
  \cup {Qual("id", "=", ValueCell(CellString("cus_1?expand")), FALSE),
        Qual("id", "=", ValueCell(CellI64(5)), FALSE),
        Qual("customer", "=", ValueCell(CellI64(5)), FALSE),
        Qual("active", "=", ValueCell(CellBool(TRUE)), FALSE),
        Qual("customer", "=", ValueArray(<< CellString("cus_1") >>), FALSE)}
  \cup {Qual("customer", "<>", ValueCell(CellString("cus_1")), FALSE),
        Qual("customer", "=", ValueCell(CellString("cus_1")), TRUE)}
\* the predicates added to a translated list: a non-equality, a disjunctive
\* one, and one on a field no object pushes down
AddedQuals ==
  {Qual("customer", "<>", ValueCell(CellString("cus_1")), FALSE),
   Qual("customer", "=", ValueCell(CellString("cus_1")), TRUE),
   Qual("id", "=", ValueCell(CellString("cus_1")), FALSE)}
UrlCursors == {None, Some("cus_9")}
\* the responses to a single-object GET, and the columns asked of them
BareBodies ==
  ScanRecords \cup {JObj([id |-> JStr("cus_1"), created |-> JNum(1)]),
                    JObj([id |-> JStr("cus_1"), created |-> JNum(300)])}
BareColumns == {<< >>, <<"id", "created">>, <<"attrs">>}

\* the fields build_url hands to pushdown_quals for each object
PushdownableOf(obj) ==
  CASE obj = "balance_transactions" -> {"payout", "type"}
    [] obj = "charges" -> {"customer"}
    [] obj = "customers" -> {"email"}
    [] obj = "invoices" -> {"customer", "status", "subscription"}
    [] obj = "payment_intents" -> {"customer"}
    [] obj = "products" -> {"active"}
    [] obj = "subscriptions" -> {"customer", "price", "status"}
    [] OTHER -> {}
LookupObjs == {"customers", "products", "subscriptions"}

\* a predicate the translator does not consider: not an equality, disjunctive,
\* or on a field outside the pushdownable set
Ineligible(q, obj) == q.operator # "=" \/ q.use_or \/ q.field \notin PushdownableOf(obj)

InsertAt(q, i, x) == SubSeq(q, 1, i - 1) \o << x >> \o SubSeq(q, i, Len(q))

InitUrl ==
  /\ client = TRUE
  /\ scan_result = None /\ self_obj = "" /\ self_rowid_col = ""
  /\ pc = "idle" /\ frame = NoFrame /\ open = FALSE /\ outcome = "new"
  /\ fetches = << >> /\ served = << >> /\ errors = 0 /\ iterLog = << >>
  /\ mut = NoMut /\ requests = << >>
  /\ discarded = FALSE /\ prior = NoPrior /\ codec = NoCodec
  /\ \E obj \in AllObjs, quals \in SeqsUpTo(UrlQuals, MaxQuals), cursor \in UrlCursors :
       u = [NoUrl EXCEPT !.pc = "args", !.obj = obj, !.quals = quals, !.cursor = cursor]

\* build_url is applied to the arguments
BuildUrl ==
  /\ u.pc = "args"
  /\ LET url == build_url(u.obj, u.quals, page_size, u.cursor)
     IN u' = [u EXCEPT !.pc = "built", !.url = url, !.quals0 = u.quals, !.url0 = url]
  /\ UNCHANGED <<client, scanVars, modVars, codec>>

\* an ineligible predicate is put into the list and build_url is applied again
AddIneligible ==
  /\ u.pc = "built"
  /\ Len(u.quals) <= MaxQuals
  /\ \E q \in AddedQuals, i \in 1..(Len(u.quals) + 1) :
       /\ Ineligible(q, u.obj)
       /\ LET quals == InsertAt(u.quals, i, q)
          IN u' = [u EXCEPT !.quals = quals,
                            !.url = build_url(u.obj, quals, page_size, u.cursor)]
  /\ UNCHANGED <<client, scanVars, modVars, codec>>

\* the single-object GET is answered with a bare object, which is decoded
DecodeBare ==
  /\ u.pc = "built"
  /\ is_some(u.url) /\ is_some(u.url.v.item)
  /\ \E body \in BareBodies, columns \in BareColumns :
       u' = [u EXCEPT !.pc = "decoded", !.body = body, !.columns = columns,
                      !.decoded = resp_to_rows(u.obj, body, columns).res]
  /\ UNCHANGED <<client, scanVars, modVars, codec>>

NextUrl == BuildUrl \/ AddIneligible \/ DecodeBare
SpecUrl == InitUrl /\ [][NextUrl]_vars

(* ============ body_to_rows and row_to_body on bounded arguments ======== *)
\* the records of the response bodies: a full one with two fields no schema
\* has, one whose 'created' is past the last date-time, one whose fields have
\* the wrong JSON types, and an empty one
RecFull ==
  JObj([id |-> JStr("cus_1"), name |-> JStr("n"), active |-> JBool(TRUE),
        amount |-> JNum(5), currency |-> JStr("usd"), created |-> JNum(1),
        livemode |-> JBool(FALSE), metadata |-> JObj([k |-> JNum(1)])])
RecBadTs == JObj([id |-> JStr("cus_2"), created |-> JNum(300), livemode |-> JBool(FALSE)])
RecMism ==
  JObj([id |-> JNum(7), name |-> JStr("m"), active |-> JStr("yes"),
        amount |-> JStr("5"), created |-> JStr("soon")])
RecEmpty == JObj(<< >>)
CodecRecords == {RecFull, RecBadTs, RecMism, RecEmpty}
CodecPages ==
  {<< >>, << RecFull >>, << RecMism >>, << RecFull, RecMism >>, << RecBadTs, RecFull >>,
   << RecMism, RecEmpty, RecFull >>}

\* a list envelope with the record array under key
ListBodyOf(key, recs, hm) ==
  LET base == IF key = "available"
              THEN [object |-> JStr("list"), available |-> JArr(recs)]
              ELSE [object |-> JStr("list"), data |-> JArr(recs)]
  IN IF hm = "absent" THEN JObj(base)
     ELSE JObj(map_insert(base, "has_more", JBool(hm = "true")))

CodecBodies ==
  {ListBodyOf(key, recs, hm) :
      key \in {"data", "available"}, recs \in CodecPages, hm \in {"true", "false", "absent"}}
  \cup CodecRecords

\* the tgt_cols of the decodes; 'nickname' is in no schema
CodecColumns ==
  {<< >>, <<"attrs">>, <<"id", "created">>, <<"name", "attrs">>,
   <<"id", "name", "active", "amount", "description">>,
   <<"nickname", "id", "created", "attrs">>}

\* the rows of the encodes
CodecRows ==
  {<< >>,
   << [col |-> "id", cell |-> Some(CellString("cus_1"))],
      [col |-> "name", cell |-> Some(CellString("n"))],
      [col |-> "active", cell |-> Some(CellBool(TRUE))] >>,
   << [col |-> "amount", cell |-> Some(CellI64(5))],
      [col |-> "currency", cell |-> Some(CellString("usd"))] >>,
   << [col |-> "id", cell |-> Some(CellString("cus_1"))],
      [col |-> "description", cell |-> None],
      [col |-> "amount", cell |-> Some(CellI64(0))] >>,
   << [col |-> "amount", cell |-> Some(CellString("5"))] >>,
   << [col |-> "created", cell |-> Some(CellI64(1))] >>,
   << [col |-> "nickname", cell |-> Some(CellString("x"))] >>,
   << [col |-> "name", cell |-> Some(CellString("n"))],
      [col |-> "created", cell |-> Some(CellTimestamp(1))] >>}

\* the columns of the populated cells of a row, in row order
PopulatedCols(row) ==
  LET sel == SelectSeq(row, LAMBDA c : is_some(c.cell))
  IN [i \in 1..Len(sel) |-> sel[i].col]

InitCodec ==
  /\ client = TRUE
  /\ scan_result = None /\ self_obj = "" /\ self_rowid_col = ""
  /\ pc = "idle" /\ frame = NoFrame /\ open = FALSE /\ outcome = "new"
  /\ fetches = << >> /\ served = << >> /\ errors = 0 /\ iterLog = << >>
  /\ mut = NoMut /\ requests = << >>
  /\ u = NoUrl /\ discarded = FALSE /\ prior = NoPrior
  /\ \/ \E obj \in SupportedObjs, columns \in CodecColumns, body \in CodecBodies :
          codec = [NoCodec EXCEPT !.pc = "body", !.obj = obj, !.columns = columns,
                                  !.body = body]
     \/ \E obj \in SupportedObjs, row \in CodecRows :
          codec = [NoCodec EXCEPT !.pc = "row", !.obj = obj, !.row = row]

\* resp_to_rows is applied to a response body
Decode ==
  /\ codec.pc = "body"
  /\ codec' = [codec EXCEPT !.pc = "decoded",
                            !.decoded = resp_to_rows(codec.obj, codec.body, codec.columns)]
  /\ UNCHANGED <<client, scanVars, modVars, u>>

\* a decoded row is given back to row_to_body
Reencode ==
  /\ codec.pc = "decoded"
  /\ ~codec.decoded.res.panic
  /\ \E i \in 1..Len(codec.decoded.res.rows) :
       codec' = [codec EXCEPT !.pc = "reencoded", !.i = i,
                              !.row = codec.decoded.res.rows[i],
                              !.encoded = row_to_body(codec.decoded.res.rows[i])]
  /\ UNCHANGED <<client, scanVars, modVars, u>>

\* row_to_body is applied to a row
Encode ==
  /\ codec.pc = "row"
  /\ codec' = [codec EXCEPT !.pc = "encoded", !.encoded = row_to_body(codec.row)]
  /\ UNCHANGED <<client, scanVars, modVars, u>>

\* the body row_to_body made is decoded, asking for the columns it populated
DecodeEncoded ==
  /\ codec.pc = "encoded"
  /\ codec.encoded.body # JNull
  /\ LET columns == PopulatedCols(codec.row)
     IN codec' = [codec EXCEPT !.pc = "roundtrip", !.body = codec.encoded.body,
                               !.columns = columns,
                               !.decoded = resp_to_rows(codec.obj, codec.encoded.body, columns)]
  /\ UNCHANGED <<client, scanVars, modVars, u>>

NextCodec == Decode \/ Reencode \/ Encode \/ DecodeEncoded
SpecCodec == InitCodec /\ [][NextCodec]_vars

(* ===================== properties of the scan engine =================== *)
PaginatedObjs == SupportedObjs \ {"balance"}

\* a response is a list envelope with records and a boolean has_more
PageRecs(resp) == field(resp.body, "data").v.v
PageFlag(resp) == field(resp.body, "has_more").v.v
IsPage(resp) ==
  /\ resp.kind = "ok"
  /\ field(resp.body, "object") = Some(JStr("list"))
  /\ is_some(field(resp.body, "data")) /\ is_some(as_array(field(resp.body, "data").v))
  /\ PageRecs(resp) # << >>
  /\ is_some(field(resp.body, "has_more")) /\ is_some(as_bool(field(resp.body, "has_more").v))
\* the id of the last record of a page
PageLastId(resp) == field(PageRecs(resp)[Len(PageRecs(resp))], "id")
\* the values of the query parameter k of a Url, in order
Params(url, k) ==
  LET hit == SelectSeq(url.query, LAMBDA kv : kv[1] = k)
  IN [i \in 1..Len(hit) |-> hit[i][2]]
\* the rows of the pages 1..n, decoded page by page, in page order
RECURSIVE PagesRows(_, _, _, _)
PagesRows(obj, columns, pages, n) ==
  IF n = 0 THEN << >>
  ELSE PagesRows(obj, columns, pages, n - 1)
       \o resp_to_rows(obj, pages[n].body, columns).res.rows
\* the rows iter_scan has delivered since the last begin_scan
Delivered == SelectSeq(iterLog, LAMBDA r : r # None)

\* the scan is over, it was unlimited, over a paginated object, and every
\* response it got was a non-empty page whose last record has a string id
C1_Case ==
  /\ pc = "idle" /\ open /\ client
  /\ frame.limit = None
  /\ frame.obj \in PaginatedObjs
  /\ served # << >>
  /\ \A i \in 1..Len(served) :
       /\ IsPage(served[i])
       /\ is_some(PageLastId(served[i])) /\ is_some(as_str(PageLastId(served[i]).v))

\* C1: an unlimited scan over k non-empty pages, has_more true on all but the
\* last, makes exactly k fetches (it stops at the first has_more = false and
\* never before), the first without cursor, fetch N+1 with the id of the last
\* record of page N as cursor (as starting_after on a collection Url), and
\* buffers the rows of the pages in page and record order.
C1_Pagination ==
  C1_Case =>
    LET k == Len(served)
    IN /\ outcome = "done"
       /\ Len(fetches) = k
       /\ \A i \in 1..(k - 1) : PageFlag(served[i]) = TRUE
       /\ PageFlag(served[k]) = FALSE
       /\ fetches[1].cursor = None
       /\ Params(fetches[1].url, "starting_after") = << >>
       /\ \A i \in 1..(k - 1) :
            /\ fetches[i + 1].cursor = Some(PageLastId(served[i]).v.v)
            /\ fetches[i + 1].url.item = None =>
                 Params(fetches[i + 1].url, "starting_after")
                   = << PageLastId(served[i]).v.v >>
       /\ frame.result = PagesRows(frame.obj, frame.columns, served, k)
       /\ iterLog = << >> => scan_result = Some(frame.result)

\* three pages of two records each were scanned, with two different cursors
C1_Witness ==
  /\ C1_Case /\ Len(served) = 3 /\ outcome = "done"
  /\ \A i \in 1..3 : Len(PageRecs(served[i])) = 2
  /\ Len(frame.result) = 6
  /\ fetches[2].url.item = None
  /\ fetches[2].cursor # fetches[3].cursor

Ceil(a, b) == (a + b - 1) \div b

\* C2: with a limit (offset, count), count > 0, the scan makes at most
\* ceil((offset + count) / page_size) fetches.
C2_PageBudget ==
  (is_some(frame.limit) /\ frame.limit.v.count > 0) =>
    Len(fetches) <= Ceil(frame.limit.v.offset + frame.limit.v.count, page_size)

\* C3: a begin_scan whose limit has count = 0 makes no fetch, and the
\* iter_scan calls that follow it deliver no row.
C3_ZeroCount ==
  (open /\ is_some(frame.limit) /\ frame.limit.v.count = 0) =>
    /\ pc = "idle"
    /\ fetches = << >>
    /\ Delivered = << >>

\* a zero-count scan of a configured object was begun and iterated
C3_Witness ==
  /\ open /\ client /\ is_some(frame.limit) /\ frame.limit.v.count = 0
  /\ frame.limit.v.offset > 0
  /\ "object" \in DOMAIN frame.options
  /\ Len(iterLog) >= 1

\* the last response of the scan was a transport error or a non-success status
C4_Case == open /\ served # << >> /\ served[Len(served)].kind # "ok"

\* C4: when fetch N fails, one request error is reported, no further fetch
\* is made, and no row of the pages 1..N-1 is delivered by iter_scan.
C4_AbortOnFailure ==
  C4_Case =>
    /\ pc = "idle"
    /\ errors = 1
    /\ Len(fetches) = Len(served)
    /\ scan_result = None
    /\ Delivered = << >>

\* the third fetch failed after two pages had been decoded, and iter_scan ran
C4_Witness ==
  /\ C4_Case /\ Len(served) = 3 /\ Len(frame.result) >= 2 /\ Len(iterLog) >= 1

\* the configuration is in error: no 'object' option, or an unsupported object
ConfigError(options) ==
  ~("object" \in DOMAIN options) \/ ~(options["object"] \in SupportedObjs)

\* C5: a begin_scan with a configuration error (here on an instance that has
\* its client) reports it exactly once, makes no fetch and delivers no row.
C5_ConfigError ==
  (open /\ client /\ ConfigError(frame.options)) =>
    /\ fetches = << >>
    /\ pc = "idle" /\ errors = 1
    /\ Delivered = << >>

\* C6: after a begin_scan that buffered r1..rn, the i-th iter_scan returns
\* ri for i <= n and end-of-data for i > n.
C6_Fifo ==
  (open /\ pc = "idle" /\ outcome = "done") =>
    /\ \A i \in 1..Len(iterLog) :
         iterLog[i] = IF i <= Len(frame.result) THEN Some(frame.result[i]) ELSE None
    /\ scan_result =
         Some(SubSeq(frame.result, Len(Delivered) + 1, Len(frame.result)))

\* a buffer of at least two different rows was drained and asked once more
C6_Witness ==
  /\ open /\ pc = "idle" /\ outcome = "done"
  /\ Len(frame.result) >= 2 /\ frame.result[1] # frame.result[2]
  /\ Len(iterLog) > Len(frame.result)

(* ===================== properties of build_url ========================= *)
\* a non-disjunctive equality on 'id'
IdEquality(q) == q.field = "id" /\ q.operator = "=" /\ ~q.use_or
\* the predicate list is exactly one non-disjunctive equality on 'id'
SingleId(quals) == Len(quals) = 1 /\ IdEquality(quals[1])
\* a string that is one plain path segment: Url::parse finds no query in it
PlainSegment(s) == path_part(s) = s /\ ~is_some(query_part(s))
\* ... whose value is a string cell holding one plain path segment
SingleStringId(quals) ==
  /\ SingleId(quals)
  /\ quals[1].value.t = "Cell" /\ quals[1].value.v.t = "String"
  /\ PlainSegment(quals[1].value.v.v)
\* no requested timestamp column of the body holds an integer out of range
TimestampsInRange(obj, body, columns) ==
  \A i \in 1..Len(columns) :
    \A j \in 1..Len(common_cols_of(obj)) :
      (common_cols_of(obj)[j] = <<columns[i], "timestamp">>
         /\ is_some(field(body, columns[i])) /\ field(body, columns[i]).v.t = "num")
        => from_unix_timestamp_ok(field(body, columns[i]).v.v)

FilterParams(url) ==
  IF is_some(url.item) THEN << >>
  ELSE SelectSeq(url.query, LAMBDA kv : kv[1] \notin {"limit", "starting_after"})
Keys(pairs) == [i \in 1..Len(pairs) |-> pairs[i][1]]
\* the predicates C8 calls applied, and their fields
EligibleFields(obj, quals) ==
  LET sel == SelectSeq(quals, LAMBDA q : ~Ineligible(q, obj))
  IN [i \in 1..Len(sel) |-> sel[i].field]
\* a predicate that is eligible and has a boolean or string cell as value
Pushed(q, obj) ==
  ~Ineligible(q, obj) /\ q.value.t = "Cell" /\ q.value.v.t \in {"Bool", "String"}
PushedPairs(obj, quals) ==
  LET sel == SelectSeq(quals, LAMBDA q : Pushed(q, obj))
  IN [i \in 1..Len(sel) |->
        << sel[i].field,
           IF sel[i].value.v.t = "Bool" THEN bool_to_string(sel[i].value.v.v)
           ELSE sel[i].value.v.v >>]

\* C8 as stated: one filter parameter per predicate that is an equality, is
\* non-disjunctive and is on a pushdownable field, in list order.
C8_EveryEligibleApplied ==
  (u.pc = "built" /\ is_some(u.url)) =>
    Keys(FilterParams(u.url.v)) = EligibleFields(u.obj, u.quals)

\* C8 amended: the filter parameters of the collection Url are exactly one
\* (field, value) per predicate that is an equality, non-disjunctive, on a
\* pushdownable field and has a boolean or string cell as value, in list
\* order; the single-object Url is returned only when no predicate is such.
C8_Pushdown ==
  u.pc = "built" =>
    /\ is_some(u.url)
    /\ ~is_some(u.url.v.item) => FilterParams(u.url.v) = PushedPairs(u.obj, u.quals)
    /\ is_some(u.url.v.item) => PushedPairs(u.obj, u.quals) = << >>

\* a predicate was pushed down, a disjunctive one and one with an integer
\* value were not
C8_Witness ==
  /\ u.pc = "built"
  /\ Len(FilterParams(u.url.v)) = 1
  /\ \E i \in 1..Len(u.quals) : u.quals[i].use_or
  /\ \E i \in 1..Len(u.quals) :
       ~Ineligible(u.quals[i], u.obj) /\ ~Pushed(u.quals[i], u.obj)

RECURSIVE IsSubseq(_, _)
IsSubseq(a, b) ==
  IF a = << >> THEN TRUE
  ELSE IF b = << >> THEN FALSE
  ELSE IF Head(a) = Head(b) THEN IsSubseq(Tail(a), Tail(b))
  ELSE IsSubseq(a, Tail(b))

\* C9: after ineligible predicates were added anywhere in the list, the
\* filter parameters contain, in order, those of the original list.
C9_DroppedKeepPushed ==
  (u.pc = "built" /\ is_some(u.url0) /\ is_some(u.url)) =>
    IsSubseq(FilterParams(u.url0.v), FilterParams(u.url.v))

\* a list that pushed a parameter got ineligible predicates before and after
C9_Witness ==
  /\ u.pc = "built"
  /\ FilterParams(u.url0.v) # << >>
  /\ Len(u.quals) = Len(u.quals0) + 2
  /\ Ineligible(u.quals[1], u.obj)
  /\ Ineligible(u.quals[Len(u.quals)], u.obj)

(* ================= properties of the mutation dispatcher =============== *)
\* the row has a populated cell that is neither boolean, integer, string nor
\* the JSON cell of the 'attrs' column
HasUnsupportedCell(row) ==
  \E i \in 1..Len(row) :
    /\ is_some(row[i].cell)
    /\ row[i].cell.v.t \notin {"Bool", "I64", "String"}
    /\ ~(row[i].cell.v.t = "Json" /\ row[i].col = "attrs")

\* C10: an insert or update (here on an instance that has its client and its
\* 'object' option) of a row with such a cell reports one error, encodes to a
\* null body and sends no request.
C10_UnsupportedCell ==
  (client /\ self_obj # "" /\ mut.op \in {"insert", "update"}
     /\ HasUnsupportedCell(mut.row)) =>
    /\ mut.errors = 1
    /\ mut.encoded = Some(JNull)
    /\ mut.sent = None

(* ======================= properties of the codec ======================= *)
\* the body is a list envelope with its record array under the key of obj
IsListOf(obj, body) ==
  /\ field(body, "object") = Some(JStr("list"))
  /\ is_some(field(body, obj_key_of(obj)))
  /\ is_some(as_array(field(body, obj_key_of(obj)).v))
\* the records of a body: those of the envelope, or the bare object itself
BodyRecords(obj, body) ==
  IF IsListOf(obj, body) THEN field(body, obj_key_of(obj)).v.v ELSE << body >>
\* the body can be decoded for obj: an envelope of obj, or a bare object
\* that is not an envelope
Decodable(obj, body) ==
  \/ IsListOf(obj, body)
  \/ body.t = "obj" /\ field(body, "object") # Some(JStr("list"))
\* the schema type of column c of obj, "" when the schema has no such column
TypeOf(obj, c) ==
  LET i == col_index(common_cols_of(obj), c)
  IN IF i = 0 THEN "" ELSE common_cols_of(obj)[i][2]
\* column c of rec is a timestamp column holding an integer that is not a
\* Unix-epoch timestamp
BadTimestamp(obj, rec, c) ==
  /\ TypeOf(obj, c) = "timestamp"
  /\ is_some(field(rec, c)) /\ field(rec, c).v.t = "num"
  /\ ~from_unix_timestamp_ok(field(rec, c).v.v)
HasBadTimestamp(obj, body, columns) ==
  \E i \in 1..Len(BodyRecords(obj, body)) : \E k \in 1..Len(columns) :
     BadTimestamp(obj, BodyRecords(obj, body)[i], columns[k])

\* C11: when a requested timestamp column of a record holds an integer that
\* is not a valid timestamp, the decode does not fail, every record of the
\* page still gives its row, and only that cell is empty.
C11_TimestampEmptyCell ==
  (codec.pc = "decoded" /\ Decodable(codec.obj, codec.body)
     /\ HasBadTimestamp(codec.obj, codec.body, codec.columns)) =>
    LET recs == BodyRecords(codec.obj, codec.body)
        rows == codec.decoded.res.rows
    IN /\ ~codec.decoded.res.panic
       /\ Len(rows) = Len(recs)
       /\ \A i \in 1..Len(rows) : \A k \in 1..Len(rows[i]) :
            BadTimestamp(codec.obj, recs[i], rows[i][k].col) => rows[i][k].cell = None

\* a list envelope of obj as the upstream sends it: has_more is false, every
\* record is a JSON object, and no timestamp field of the schema holds an
\* integer that is not a timestamp
WellFormedList(obj, body) ==
  /\ IsListOf(obj, body)
  /\ field(body, "has_more") = Some(JBool(FALSE))
  /\ \A i \in 1..Len(BodyRecords(obj, body)) :
       /\ BodyRecords(obj, body)[i].t = "obj"
       /\ \A j \in 1..Len(common_cols_of(obj)) :
            ~BadTimestamp(obj, BodyRecords(obj, body)[i], common_cols_of(obj)[j][1])
Requested(columns, c) == \E k \in 1..Len(columns) : columns[k] = c

\* C12: for every supported object and every list of requested columns, a
\* well-formed envelope of n records with has_more = false decodes to n rows,
\* row i from record i, and every column of every row is a requested column
\* that is a schema column of the object or 'attrs'.
C12_DecodeList ==
  (codec.pc = "decoded" /\ WellFormedList(codec.obj, codec.body)) =>
    LET recs == BodyRecords(codec.obj, codec.body)
        rows == codec.decoded.res.rows
    IN /\ ~codec.decoded.res.panic
       /\ codec.decoded.errors = 0
       /\ Len(rows) = Len(recs)
       /\ \A i \in 1..Len(rows) : \A k \in 1..Len(rows[i]) :
            LET c == rows[i][k]
            IN /\ Requested(codec.columns, c.col)
               /\ c.col = "attrs" \/ TypeOf(codec.obj, c.col) # ""
               /\ c.col = "attrs" => c.cell = Some(CellJson(recs[i]))
               /\ (c.col # "attrs" /\ is_some(c.cell)) =>
                    /\ is_some(field(recs[i], c.col))
                    /\ field(recs[i], c.col).v.v = c.cell.v.v

\* an envelope of three different records was decoded for a column list that
\* asks for a column the schema does not have
C12_Witness ==
  /\ codec.pc = "decoded" /\ WellFormedList(codec.obj, codec.body)
  /\ Len(codec.decoded.res.rows) = 3
  /\ codec.decoded.res.rows[1] # codec.decoded.res.rows[3]
  /\ Requested(codec.columns, "nickname")
  /\ \E k \in 1..Len(codec.decoded.res.rows[3]) :
       codec.decoded.res.rows[3][k].col # "attrs"
         /\ is_some(codec.decoded.res.rows[3][k].cell)

\* the populated cells of a row
Populated(row) == SelectSeq(row, LAMBDA c : is_some(c.cell))
\* a row of the schema of obj in which only scalar columns are populated:
\* every populated cell is a boolean, integer or string cell in a schema
\* column of that type, and no column comes twice
ScalarRow(obj, row) ==
  /\ \A i \in 1..Len(row) :
       is_some(row[i].cell) =>
         \/ row[i].cell.v.t = "Bool" /\ TypeOf(obj, row[i].col) = "bool"
         \/ row[i].cell.v.t = "I64" /\ TypeOf(obj, row[i].col) = "i64"
         \/ row[i].cell.v.t = "String" /\ TypeOf(obj, row[i].col) = "string"
  /\ \A i, j \in 1..Len(row) : row[i].col = row[j].col => i = j

\* C13: a row of scalar columns encodes without error to a JSON object, and
\* that object, decoded by the schema of the same object for the populated
\* columns, gives exactly one row holding the populated cells unchanged.
C13_ScalarRoundTrip ==
  (codec.pc \in {"encoded", "roundtrip"} /\ ScalarRow(codec.obj, codec.row)) =>
    /\ codec.encoded.errors = 0
    /\ codec.encoded.body.t = "obj"
    /\ codec.pc = "roundtrip" =>
         /\ ~codec.decoded.res.panic
         /\ codec.decoded.errors = 0
         /\ codec.decoded.res.rows = << Populated(codec.row) >>

\* a row with a string cell, an integer cell and an empty cell went round
C13_Witness ==
  /\ codec.pc = "roundtrip" /\ ScalarRow(codec.obj, codec.row)
  /\ \E i \in 1..Len(codec.row) : ~is_some(codec.row[i].cell)
  /\ \E i \in 1..Len(codec.row) :
       is_some(codec.row[i].cell) /\ codec.row[i].cell.v.t = "I64"
  /\ \E i \in 1..Len(codec.row) :
       is_some(codec.row[i].cell) /\ codec.row[i].cell.v.t = "String"

\* the fields of a record that the schema of obj does not have
ExtraFields(obj, rec) ==
  IF rec.t = "obj" THEN {k \in DOMAIN rec.v : TypeOf(obj, k) = ""} ELSE {}
\* the body has every extra field of the record, with its value, at top level
KeepsExtras(obj, rec, body) ==
  /\ body.t = "obj"
  /\ \A k \in ExtraFields(obj, rec) : k \in DOMAIN body.v /\ body.v[k] = rec.v[k]
HasTimestampCell(row) ==
  \E i \in 1..Len(row) : is_some(row[i].cell) /\ row[i].cell.v.t = "Timestamp"

\* C14 as stated: a record decoded with 'attrs' among the requested columns
\* and encoded again gives a body object holding every field of the record
\* that is not in the schema, with its value.
C14_AttrsAnyColumns ==
  (codec.pc = "reencoded" /\ Requested(codec.columns, "attrs")) =>
    KeepsExtras(codec.obj, BodyRecords(codec.obj, codec.body)[codec.i], codec.encoded.body)

\* C14 amended: ... and with no timestamp column populated in the decoded
\* row ...; when the decoded row holds a timestamp cell, the encoding reports
\* one error and gives a null body.
C14_AttrsRoundTrip ==
  (codec.pc = "reencoded" /\ Requested(codec.columns, "attrs")) =>
    IF HasTimestampCell(codec.row)
    THEN codec.encoded = [body |-> JNull, errors |-> 1]
    ELSE /\ codec.encoded.errors = 0
         /\ KeepsExtras(codec.obj, BodyRecords(codec.obj, codec.body)[codec.i],
                        codec.encoded.body)

\* a record with two extra fields was decoded into a string cell and 'attrs'
\* and encoded again
C14_Witness ==
  /\ codec.pc = "reencoded" /\ Requested(codec.columns, "attrs")
  /\ ~HasTimestampCell(codec.row)
  /\ Cardinality(ExtraFields(codec.obj, BodyRecords(codec.obj, codec.body)[codec.i])) >= 2
  /\ \E i \in 1..Len(codec.row) :
       is_some(codec.row[i].cell) /\ codec.row[i].cell.v.t = "String"

(* ============ further properties of the mutation dispatcher ============ *)
\* C15: after a begin_modify with the 'object' or the 'rowid_column' option
\* missing (here on an instance that has its client), the insert, update and
\* delete calls that follow send no request.
C15_MissingOptionNoRequest ==
  (client /\ mut.op \in {"insert", "update", "delete"}
     /\ (self_obj = "" \/ self_rowid_col = "")) =>
    /\ mut.sent = None
    /\ requests = << >>

(* ================ further properties of the scan engine ================ *)
\* what the last response of the scan decoded to
LastServed == served[Len(served)]
LastDecoded == resp_to_rows(frame.obj, LastServed.body, frame.columns)
\* iter_scan has so far returned the rows of the buffered result in order,
\* then end-of-data
DeliveredInOrder ==
  /\ \A i \in 1..Len(iterLog) :
       iterLog[i] = IF i <= Len(frame.result) THEN Some(frame.result[i]) ELSE None
  /\ scan_result = Some(SubSeq(frame.result, Len(Delivered) + 1, Len(frame.result)))

\* the last response of the scan was fetched successfully and decoded, for a
\* supported object, to no record
C16_Case ==
  /\ open /\ served # << >> /\ LastServed.kind = "ok"
  /\ frame.obj \in SupportedObjs
  /\ ~LastDecoded.res.panic /\ LastDecoded.res.rows = << >>

\* C16: when a fetched page decodes to no record the loop ends there,
\* whatever has_more says: no further fetch, no error, and the rows of the
\* earlier pages are buffered and delivered in order.
C16_EmptyPageEnds ==
  C16_Case =>
    /\ pc = "idle" /\ outcome = "done"
    /\ Len(fetches) = Len(served)
    /\ errors = 0
    /\ frame.result = PagesRows(frame.obj, frame.columns, served, Len(served) - 1)
    /\ DeliveredInOrder

\* an empty page with has_more = true came after two pages of records, and
\* the buffer was drained
C16_Witness ==
  /\ C16_Case /\ Len(served) = 3
  /\ field(LastServed.body, "has_more") = Some(JBool(TRUE))
  /\ Len(frame.result) >= 2
  /\ Len(iterLog) > Len(frame.result)

\* the body has a boolean has_more field
HasFlag(body) ==
  is_some(field(body, "has_more")) /\ is_some(as_bool(field(body, "has_more").v))
\* a bare object: a JSON object that is not a list envelope
IsBare(body) == body.t = "obj" /\ field(body, "object") # Some(JStr("list"))

\* the last response of the scan was fetched successfully and decoded, for a
\* supported object, to at least one record, and has no boolean has_more
C17_Case ==
  /\ open /\ served # << >> /\ LastServed.kind = "ok"
  /\ frame.obj \in SupportedObjs
  /\ ~LastDecoded.res.panic /\ LastDecoded.res.rows # << >>
  /\ ~HasFlag(LastServed.body)

\* C17: a page without a boolean has_more is the last one: its rows are
\* appended to those of the earlier pages and no further fetch is made; a
\* scan whose first answer is a bare object makes exactly one fetch and
\* buffers its one row, with or without a limit.
C17_NoFlagIsLast ==
  /\ C17_Case =>
       /\ pc = "idle" /\ outcome = "done"
       /\ Len(fetches) = Len(served)
       /\ frame.result = PagesRows(frame.obj, frame.columns, served, Len(served))
       /\ DeliveredInOrder
  /\ (open /\ served # << >> /\ served[1].kind = "ok" /\ IsBare(served[1].body)
        /\ frame.obj \in SupportedObjs) =>
       /\ pc = "idle" /\ outcome = "done"
       /\ Len(fetches) = 1
       /\ Len(frame.result) = 1

\* an unlimited scan got a page with has_more = true and then a page of two
\* records with no has_more, and the buffer was drained
C17_Witness ==
  /\ C17_Case /\ frame.limit = None /\ Len(served) = 2
  /\ ~is_some(field(LastServed.body, "has_more"))
  /\ Len(LastDecoded.res.rows) = 2
  /\ Len(iterLog) > Len(frame.result)

\* the cursor the loop holds when it makes fetch i: none at first, then the
\* one decoded from the page before
CursorAt(i) ==
  IF i = 1 THEN None
  ELSE resp_to_rows(frame.obj, served[i - 1].body, frame.columns).res.cursor

\* C18: every collection Url fetched for an object other than 'balance' is
\* its filter parameters, then limit = 100, then starting_after with the
\* current cursor exactly when there is one; a Url fetched for 'balance' has
\* neither limit nor starting_after.
C18_PaginationParams ==
  \A i \in 1..Len(fetches) :
    LET url == fetches[i].url
    IN /\ i <= Len(served) + 1
       /\ fetches[i].cursor = CursorAt(i)
       /\ IF frame.obj = "balance"
          THEN Params(url, "limit") = << >> /\ Params(url, "starting_after") = << >>
          ELSE ~is_some(url.item) =>
                 url.query =
                   FilterParams(url) \o << <<"limit", "100">> >>
                     \o (IF is_some(CursorAt(i))
                         THEN << <<"starting_after", CursorAt(i).v>> >> ELSE << >>)

\* a scan with a pushed-down filter made a first fetch without cursor, a
\* second with one, and a third with none again after a page whose last
\* record has no string id
C18_Witness ==
  /\ Len(fetches) = 3
  /\ FilterParams(fetches[2].url) # << >>
  /\ Params(fetches[1].url, "starting_after") = << >>
  /\ Len(Params(fetches[2].url, "starting_after")) = 1
  /\ Params(fetches[3].url, "starting_after") = << >>
  /\ Params(fetches[3].url, "limit") = << "100" >>

\* a is the beginning of b
IsPrefix(a, b) == Len(a) <= Len(b) /\ \A i \in 1..Len(a) : a[i] = b[i]
\* the rows iter_scan has delivered since the last begin_scan
DeliveredRows == [i \in 1..Len(Delivered) |-> Delivered[i].v]

\* C19: after end_scan the buffer is gone and every iter_scan returns
\* end-of-data until the next begin_scan; the rows delivered during a scan
\* are rows that scan itself buffered (none when it buffered nothing), so
\* none of them is a row an earlier end_scan discarded.
C19_EndDiscards ==
  /\ ~open => (scan_result = None /\ Delivered = << >>)
  /\ (open /\ pc = "idle") =>
       IsPrefix(DeliveredRows, IF outcome = "done" THEN frame.result ELSE << >>)

\* end_scan closed a scan with rows still undelivered, and iter_scan was
\* called after it
C19_Witness ==
  /\ ~open /\ outcome = "ended" /\ discarded
  /\ Len(iterLog) = ExtraIter

(* ================== further properties of the codec ==================== *)
\* the JSON type a column of a semantic type is read from
JsonTypeOf(col_type) ==
  CASE col_type = "bool" -> "bool"
    [] col_type = "i64" -> "num"
    [] col_type = "string" -> "str"
    [] col_type = "timestamp" -> "num"
    [] OTHER -> "none"
\* the value of schema column c is absent from the record
Absent(rec, c) == ~is_some(field(rec, c))
\* ... or is there with another JSON type than the column's
Mismatched(obj, rec, c) ==
  is_some(field(rec, c)) /\ field(rec, c).v.t # JsonTypeOf(TypeOf(obj, c))
\* the requested columns the schema of obj has, in request order
SchemaRequested(obj, columns) == SelectSeq(columns, LAMBDA c : TypeOf(obj, c) # "")
\* the cells of a row other than 'attrs'
SchemaCells(row) == SelectSeq(row, LAMBDA c : c.col # "attrs")

\* a body that decodes: an envelope of obj or a bare object, in which no
\* requested timestamp column holds an integer that is not a timestamp
C20_Case ==
  /\ codec.pc = "decoded" /\ Decodable(codec.obj, codec.body)
  /\ ~HasBadTimestamp(codec.obj, codec.body, codec.columns)

\* C20: every record gives a row with one cell per requested schema column;
\* the cell is empty exactly when the record's value for the column is absent
\* or of another JSON type than the column's, and holds the value otherwise;
\* nothing is reported.
C20_EmptyCellOnMismatch ==
  C20_Case =>
    LET recs == BodyRecords(codec.obj, codec.body)
        rows == codec.decoded.res.rows
        cols == SchemaRequested(codec.obj, codec.columns)
    IN /\ ~codec.decoded.res.panic
       /\ codec.decoded.errors = 0
       /\ Len(rows) = Len(recs)
       /\ \A i \in 1..Len(rows) :
            /\ Len(SchemaCells(rows[i])) = Len(cols)
            /\ \A k \in 1..Len(cols) :
                 LET c == SchemaCells(rows[i])[k]
                 IN /\ c.col = cols[k]
                    /\ IF Absent(recs[i], cols[k]) \/ Mismatched(codec.obj, recs[i], cols[k])
                       THEN c.cell = None
                       ELSE is_some(c.cell) /\ c.cell.v.v = field(recs[i], cols[k]).v.v

\* a record gave a row with a cell left empty by a value of the wrong type,
\* a cell left empty by an absent value and a populated cell
C20_Witness ==
  /\ C20_Case
  /\ \E i \in 1..Len(codec.decoded.res.rows) :
       LET rec == BodyRecords(codec.obj, codec.body)[i]
           row == codec.decoded.res.rows[i]
       IN /\ \E k \in 1..Len(row) :
               Mismatched(codec.obj, rec, row[k].col) /\ row[k].cell = None
          /\ \E k \in 1..Len(row) :
               row[k].col # "attrs" /\ Absent(rec, row[k].col) /\ row[k].cell = None
          /\ \E k \in 1..Len(row) : row[k].col # "attrs" /\ is_some(row[k].cell)

(* ============ properties: begin_scan calls that end early ============== *)
\* the begin_scan in force returned before line 501 for one of the four causes
EarlyEnded ==
  pc = "idle" /\ outcome \in {"zero_count", "no_object", "no_client", "request_failed"}

\* the buffer holds what `before` held, less the rows delivered since the call
LessDelivered(before) ==
  IF is_some(before)
  THEN is_some(scan_result) /\ before.v = DeliveredRows \o scan_result.v
  ELSE ~is_some(scan_result) /\ Delivered = << >>

\* C21: a begin_scan that ends early (zero count, no 'object' option, no
\* client, failed fetch) leaves scan_result as it was before the call, and so
\* does one that is still fetching; only a begin_scan that completes its loop
\* replaces the buffer, with the rows it fetched. Hence the rows iter_scan
\* delivers after an early end are the rows the buffer held before the call,
\* and there are some only if the call was made while an earlier scan was open
\* (not closed with end_scan).
C21_EarlyEndKeepsBuffer ==
  /\ pc = "fetching" => LessDelivered(prior.buffer) /\ Delivered = << >>
  /\ EarlyEnded =>
        /\ LessDelivered(prior.buffer)
        /\ Delivered # << >> => prior.open /\ prior.begins >= 1
  /\ (pc = "idle" /\ outcome = "done") => LessDelivered(Some(frame.result))
  /\ ~open => ~is_some(scan_result)

\* a fetch failed in a begin_scan made over an open scan, and iter_scan then
\* delivered a leftover row of that scan, with more of them still buffered
C21_Witness ==
  /\ pc = "idle" /\ outcome = "request_failed"
  /\ served # << >>
  /\ prior.open /\ is_some(prior.buffer)
  /\ Delivered # << >>
  /\ is_some(scan_result) /\ scan_result.v # << >>

(* ============== properties: the pagination loop terminates ============= *)
\* a failure: the fetch failed (transport or status error, lines 494-496), or
\* the body cannot be decoded and begin_scan is left by the panic of an unwrap
\* in body_to_rows (lines 35, 46, 54, 76-77)
Fails(f, resp) ==
  resp.kind # "ok" \/ resp_to_rows(f.obj, resp.body, f.columns).res.panic
\* a page that decodes to no record (line 477)
EmptyPage(f, resp) ==
  /\ resp.kind = "ok"
  /\ LET r == resp_to_rows(f.obj, resp.body, f.columns).res
     IN ~r.panic /\ r.rows = << >>
\* a page whose has_more is false, or absent or not a boolean
NoMore(resp) == resp.kind = "ok" /\ (~HasFlag(resp.body) \/ PageFlag(resp) = FALSE)
\* what the upstream can answer to end a scan
Stops(f, resp) == Fails(f, resp) \/ EmptyPage(f, resp) \/ NoMore(resp)
\* the responses of the scan that did not end it
ContinuedPages == {i \in 1..Len(served) : ~Stops(frame, served[i])}

\* the loop of the scan in force is over
LoopOver == pc = "idle" /\ served # << >>

\* the page counter is the number of continued pages, it stays within the
\* page budget and so does the number of requests; with a limit the loop is
\* over exactly when the upstream answered with a stop or the counter reached
\* the budget, without a limit exactly when the upstream answered with a stop
C22_Counting ==
  /\ fetches # << >> =>
       /\ frame.page_cnt = page_cnt_of(frame.limit)
       /\ frame.page = Cardinality(ContinuedPages)
       /\ frame.page <= frame.page_cnt
       /\ Len(fetches) <= frame.page_cnt
  /\ pc = "fetching" =>
       /\ Len(fetches) = frame.page + 1
       /\ ContinuedPages = 1..Len(served)
  /\ served # << >> =>
       (LoopOver <=> (Stops(frame, LastServed)
                      \/ (is_some(frame.limit) /\ frame.page = frame.page_cnt)))

\* C22: with a limit the pagination loop of begin_scan terminates whatever
\* the upstream answers: the page counter grows by one per continued page and
\* the loop is over once it reaches the page budget. Without a limit the loop
\* is over if and only if the upstream answered with a failure, an empty page
\* or a page whose has_more is false or absent.
C22_LoopTerminates ==
  /\ []C22_Counting
  /\ (pc = "fetching" /\ is_some(frame.limit)) ~> (pc = "idle")

\* a scan with limit 150 offset 50 (three pages) was answered with full pages
\* and has_more = true every time, the last record of the last page having no
\* string id, and ended at its page budget with the cursor absent
C22_Witness ==
  /\ LoopOver /\ outcome = "done"
  /\ frame.limit = Some(Limit(50, 150))
  /\ Len(served) = 3 /\ ContinuedPages = 1..3
  /\ frame.page = frame.page_cnt
  /\ frame.cursor = None
  /\ Len(frame.result) >= 3

====
